---------------------------- MODULE Spec2Model ----------------------------
(***************************************************************************)
(* Retrieval, context assembly, generation, citation extraction,           *)
(* segmentation, embedding and ingestion of the multimodal RAG system      *)
(* (src/app/core/retriever.py, llm.py, text_processor.py, embedder.py,     *)
(* document_processor.py, src/app/db/vector_store.py, metadata_store.py,   *)
(* src/app/api/routes.py).                                                 *)
(*                                                                         *)
(* Strings on which the code performs string operations (query, content,   *)
(* response, chunk_id) are sequences of one-character strings.  Strings    *)
(* that are only copied (document_name, image_path, language, file names)  *)
(* are atomic.  Confidences and distances are in thousandths.              *)
(***************************************************************************)
EXTENDS Integers, Sequences, FiniteSets, TLC

VARIABLES
    pc,               \* position of the request / ingestion in its handler
    collection,       \* chunk metadata held by the combined index collection
    query,            \* request.query
    max_results,      \* request.max_results
    search_results,   \* search_vectors' processed_results
    enhanced_results, \* retrieve_context's enhanced_results (ranked context)
    context_parts,    \* build_context_for_llm's context_parts
    response,         \* raw answer text of the generation call
    citations,        \* extract_citations' citation list
    text,             \* chunk_text's input
    chunks,           \* chunk_text's result
    documents,        \* document records of the metadata database
    generation,       \* generate_response: model, path taken, attempts made
    jobs,             \* process_document: one background task per upload
    chunk_table,      \* chunk records of the metadata database
    embeddings,       \* vectors held by the combined index collection
    metadata_files,   \* document ids with a JSON file written by store_metadata
    env_dirs_set,     \* RAW_DOCUMENTS_DIR and PROCESSED_DOCUMENTS_DIR are in os.environ
    has_clip,         \* embedder.has_clip
    document_ids,     \* request.document_ids
    include_images    \* request.include_images

\* state of the generation call
genVars == <<generation>>

\* state of ingestion
ingestVars == <<jobs, chunk_table, embeddings, metadata_files, env_dirs_set, has_clip>>

\* the filters of a query request
filterVars == <<document_ids, include_images>>

vars == <<pc, collection, query, max_results, search_results, enhanced_results,
          context_parts, response, citations, text, chunks, documents,
          genVars, ingestVars, filterVars>>

---------------------------------------------------------------------------
(* Bounds of the model *)

MaxResults == 3

MaxMarkers == 2

MaxParas == 3

MaxChunks == 2

---------------------------------------------------------------------------
(* Python values *)

\* None in an integer-valued field (page_number)
NoneInt == 0 - 1

\* None in an atomic-string field (image_path, image_url, language)
NoneStr == "None"

Min(a, b) == IF a <= b THEN a ELSE b

\* sum(s), halving the sequence
RECURSIVE SumSeq(_)
SumSeq(s) ==
    IF s = <<>> THEN 0
    ELSE IF Len(s) = 1 THEN s[1]
    ELSE SumSeq(SubSeq(s, 1, Len(s) \div 2))
             + SumSeq(SubSeq(s, (Len(s) \div 2) + 1, Len(s)))

---------------------------------------------------------------------------
(* Characters and character strings *)

UpperLetters == <<"A","B","C","D","E","F","G","H","I","J","K","L","M",
                  "N","O","P","Q","R","S","T","U","V","W","X","Y","Z">>

LowerLetters == <<"a","b","c","d","e","f","g","h","i","j","k","l","m",
                  "n","o","p","q","r","s","t","u","v","w","x","y","z">>

Digits == <<"0","1","2","3","4","5","6","7","8","9">>

Range(s) == {s[i] : i \in DOMAIN s}

\* str.lower() on one character
LowerChar(c) ==
    IF \E i \in DOMAIN UpperLetters : UpperLetters[i] = c
    THEN LowerLetters[CHOOSE i \in DOMAIN UpperLetters : UpperLetters[i] = c]
    ELSE c

\* str.lower()
Lower(s) == [i \in DOMAIN s |-> LowerChar(s[i])]

\* the regular expression class \w
IsWordChar(c) ==
    c \in Range(UpperLetters) \cup Range(LowerLetters) \cup Range(Digits) \cup {"_"}

\* the regular expression class \d
IsDigit(c) == c \in Range(Digits)

DigitValue(c) == (CHOOSE i \in DOMAIN Digits : Digits[i] = c) - 1

\* int() of a string of decimal digits
RECURSIVE ParseInt(_)
ParseInt(s) ==
    IF s = <<>> THEN 0
    ELSE 10 * ParseInt(SubSeq(s, 1, Len(s) - 1)) + DigitValue(s[Len(s)])

\* Python's `sub in s`
Contains(s, sub) ==
    \E i \in 1..(Len(s) - Len(sub) + 1) : SubSeq(s, i, i + Len(sub) - 1) = sub

\* code point order of the characters that occur in chunk ids
CharOrd(c) ==
    IF IsDigit(c) THEN 48 + DigitValue(c)
    ELSE IF c = "_" THEN 95
    ELSE IF \E i \in DOMAIN LowerLetters : LowerLetters[i] = c
         THEN 96 + (CHOOSE i \in DOMAIN LowerLetters : LowerLetters[i] = c)
    ELSE 64 + (CHOOSE i \in DOMAIN UpperLetters : UpperLetters[i] = c)

\* Python's str <= str
RECURSIVE StrLeq(_, _)
StrLeq(a, b) ==
    IF a = <<>> THEN TRUE
    ELSE IF b = <<>> THEN FALSE
    ELSE IF Head(a) = Head(b) THEN StrLeq(Tail(a), Tail(b))
    ELSE CharOrd(Head(a)) < CharOrd(Head(b))


\* str() of a non-negative integer
RECURSIVE IntToStr(_)
IntToStr(n) ==
    IF n < 10 THEN <<Digits[n + 1]>>
    ELSE IntToStr(n \div 10) \o <<Digits[(n % 10) + 1]>>

---------------------------------------------------------------------------
(* Chunk metadata as process_document stores it.  A key the code leaves    *)
(* out of a metadata dict holds NoneInt / NoneStr, which is what .get()    *)
(* returns for it.                                                         *)

ModalityChars(chunk_type) ==
    CASE chunk_type = "text"  -> <<"t","e","x","t">>
      [] chunk_type = "image" -> <<"i","m","a","g","e">>
      [] chunk_type = "code"  -> <<"c","o","d","e">>

\* an id of modality and index alone
ChunkIdUnscoped(document_id, chunk_type, i) ==
    ModalityChars(chunk_type) \o <<"_">> \o IntToStr(i)

\* f"{document_id}_{modality}_{i}"
ChunkId(document_id, chunk_type, i) ==
    document_id \o <<"_">> \o ModalityChars(chunk_type) \o <<"_">> \o IntToStr(i)

TextChunkMetadata(document_id, i, chunk) ==
    [chunk_id    |-> ChunkId(document_id, "text", i),
     document_id |-> document_id,
     chunk_type  |-> "text",
     content     |-> chunk,
     page_number |-> (i \div 2) + 1,
     image_path  |-> NoneStr,
     language    |-> NoneStr]

ImageChunkMetadata(document_id, i, image_info) ==
    [chunk_id    |-> ChunkId(document_id, "image", i),
     document_id |-> document_id,
     chunk_type  |-> "image",
     content     |-> image_info.text,
     page_number |-> image_info.page_number,
     image_path  |-> image_info.path,
     language    |-> NoneStr]

CodeChunkMetadata(document_id, i, snippet, language) ==
    [chunk_id    |-> ChunkId(document_id, "code", i),
     document_id |-> document_id,
     chunk_type  |-> "code",
     content     |-> snippet,
     page_number |-> NoneInt,
     image_path  |-> NoneStr,
     language    |-> language]

---------------------------------------------------------------------------
(* The corpus the queries run against: a markdown guide d1 with two text   *)
(* chunks of equal content on page 1, a late text chunk on page 10000 and  *)
(* a code snippet, and a stand-alone image d2 without OCR text.            *)

DocGuide == <<"d","1">>

DocScan == <<"d","2">>

StrPython == <<"P","y","t","h","o","n">>

StrApi == <<"A","P","I">>

StrJava == <<"j","a","v","a">>

ChunkA == TextChunkMetadata(DocGuide, 0, StrPython)

ChunkB == TextChunkMetadata(DocGuide, 1, StrPython)

ChunkC == CodeChunkMetadata(DocGuide, 0, StrJava, "java")

ChunkD == TextChunkMetadata(DocGuide, 19998, StrApi)

ChunkE == ImageChunkMetadata(DocScan, 0,
              [path |-> "scan.png", text |-> <<>>, page_number |-> NoneInt])

Corpus == {ChunkA, ChunkB, ChunkC, ChunkD, ChunkE}

DocumentRecords ==
    {[document_id |-> DocGuide, filename |-> "guide.md"],
     [document_id |-> DocScan,  filename |-> "scan.png"]}

QueryPython == StrPython

QueryJavaPython == <<"J","a","v","a"," ">> \o StrPython

QueryJavaFive ==
    <<"j","a","v","a"," ","j","a","v","a"," ","j","a","v","a"," ",
      "j","a","v","a"," ","j","a","v","a">>

QueryNoKeyword == <<"a","n"," ">> \o StrApi

Queries == {<<>>, QueryPython, QueryJavaPython, QueryJavaFive, QueryNoKeyword}

\* distances the index may report, in thousandths
DistValues == {0, 20, 400, 2400}

---------------------------------------------------------------------------
(* search_vectors *)

DistanceCap == 950

\* confidence = 1.0 - min(distance / 2.0, 0.95)
DistanceToConfidence(distance) == 1000 - Min(distance \div 2, DistanceCap)

\* sequences of n distinct chunks of the collection
DistinctSeqs(S, n) ==
    {s \in [1..n -> S] : \A i, j \in 1..n : s[i] = s[j] => i = j}

\* sequences of n distances in ascending order
AscendingSeqs(n) ==
    {d \in [1..n -> DistValues] : \A i \in 1..(n - 1) : d[i] <= d[i + 1]}

\* collection.query: the n_results nearest chunks, nearest first
CollectionQuery(coll, n_results) ==
    LET n == Min(n_results, Cardinality(coll))
    IN  {[i \in 1..n |-> [metadata |-> m[i], distance |-> d[i]]] :
             m \in DistinctSeqs(coll, n), d \in AscendingSeqs(n)}

ProcessedResults(results) ==
    [i \in DOMAIN results |->
        [id         |-> results[i].metadata.chunk_id,
         metadata   |-> results[i].metadata,
         confidence |-> DistanceToConfidence(results[i].distance)]]

---------------------------------------------------------------------------
(* retrieve_context and hybrid_search *)

\* get_document_metadata(document_id).get("filename", ...) or the default
DocumentName(docs, document_id) ==
    IF \E r \in docs : r.document_id = document_id
    THEN (CHOOSE r \in docs : r.document_id = document_id).filename
    ELSE "Unknown Document"

EnhancedResult(docs, result) ==
    [chunk_id      |-> result.id,
     document_id   |-> result.metadata.document_id,
     document_name |-> DocumentName(docs, result.metadata.document_id),
     chunk_type    |-> result.metadata.chunk_type,
     content       |-> result.metadata.content,
     page_number   |-> result.metadata.page_number,
     confidence    |-> result.confidence,
     image_path    |-> IF result.metadata.chunk_type = "image"
                       THEN result.metadata.image_path ELSE NoneStr,
     language      |-> IF result.metadata.chunk_type = "code"
                       THEN result.metadata.language ELSE NoneStr]

\* the maximal runs of \w characters of s, in order
RECURSIVE WordRuns(_, _)
WordRuns(s, cur) ==
    IF s = <<>> THEN (IF cur = <<>> THEN <<>> ELSE <<cur>>)
    ELSE IF IsWordChar(Head(s)) THEN WordRuns(Tail(s), Append(cur, Head(s)))
    ELSE (IF cur = <<>> THEN <<>> ELSE <<cur>>) \o WordRuns(Tail(s), <<>>)

MinKeywordLen == 4

\* every word of the query, whatever its length
KeywordsAnyLength(q) == WordRuns(Lower(q), <<>>)

\* re.findall(r'\b\w{4,}\b', query.lower())
Keywords(q) ==
    LET IsKeyword(w) == Len(w) >= MinKeywordLen
    IN  SelectSeq(WordRuns(Lower(q), <<>>), IsKeyword)

\* the number of positions of content at which keyword starts
Occurrences(content, keyword) ==
    Cardinality({i \in 1..(Len(content) - Len(keyword) + 1) :
                    SubSeq(content, i, i + Len(keyword) - 1) = keyword})

\* a count of occurrences instead of a count of keywords present
KeywordOccurrences(keywords, content) ==
    SumSeq([i \in DOMAIN keywords |-> Occurrences(Lower(content), keywords[i])])

\* sum(1 for keyword in keywords if keyword in content)
KeywordMatches(keywords, content) ==
    Cardinality({i \in DOMAIN keywords : Contains(Lower(content), keywords[i])})

BoostPerMatch == 50

MaxBoost == 200

ConfidenceCap == 990

\* min(0.99, confidence + min(0.2, 0.05 * keyword_matches))
BoostedConfidence(confidence, keyword_matches) ==
    Min(ConfidenceCap, confidence + Min(MaxBoost, BoostPerMatch * keyword_matches))

Boosted(result, keywords) ==
    LET keyword_matches == KeywordMatches(keywords, result.content)
    IN  IF keyword_matches > 0
        THEN [result EXCEPT
                 !.confidence = BoostedConfidence(@, keyword_matches)]
        ELSE result

RECURSIVE InsertDescending(_, _, _)
InsertDescending(sorted, r, tiesFirst) ==
    IF sorted = <<>> THEN <<r>>
    ELSE IF Head(sorted).confidence > r.confidence
            \/ (~tiesFirst /\ Head(sorted).confidence = r.confidence)
         THEN <<Head(sorted)>> \o InsertDescending(Tail(sorted), r, tiesFirst)
         ELSE <<r>> \o sorted

RECURSIVE SortFrom(_, _, _)
SortFrom(sorted, rest, tiesFirst) ==
    IF rest = <<>> THEN sorted
    ELSE SortFrom(InsertDescending(sorted, Head(rest), tiesFirst), Tail(rest), tiesFirst)

\* descending sort that reverses the input order of equal confidences
SortByConfidenceTiesReversed(results) == SortFrom(<<>>, results, TRUE)

\* list.sort(key=confidence, reverse=True): descending and stable
SortByConfidence(results) == SortFrom(<<>>, results, FALSE)

HybridSearch(q, vector_results) ==
    LET keywords == Keywords(q)
    IN  IF keywords = <<>> THEN vector_results
        ELSE SortByConfidence(
                 [i \in DOMAIN vector_results |-> Boosted(vector_results[i], keywords)])

---------------------------------------------------------------------------
(* The generation call and ingestion at rest *)

\* no generation call has been made
IdleGeneration ==
    [model |-> NoneStr, path |-> NoneStr, attempts |-> 0, outcomes |-> <<>>]

NoGeneration == generation = IdleGeneration

\* ids that upload_document has drawn with uuid4
UploadIds == {<<"u","1">>, <<"u","2">>}

\* no upload has been made for the id
IdleJob ==
    [pc            |-> "none",
     filename      |-> NoneStr,
     document_type |-> NoneStr,
     text_chunks   |-> <<>>,
     images        |-> <<>>,
     code_snippets |-> <<>>,
     vectors       |-> <<>>,
     error         |-> NoneStr,
     extract_failed |-> FALSE]

\* document_ids = None, or a list of document ids
NoneList == [none |-> TRUE, list |-> <<>>]

IdList(ids) == [none |-> FALSE, list |-> ids]

\* a request with the defaults document_ids = None, include_images = True
NoFilter ==
    /\ document_ids = NoneList
    /\ include_images = TRUE

NoIngestion ==
    /\ jobs = [d \in UploadIds |-> IdleJob]
    /\ chunk_table = {}
    /\ embeddings = {}
    /\ metadata_files = {}
    /\ env_dirs_set = TRUE
    /\ has_clip = FALSE

---------------------------------------------------------------------------
(* The query path up to the ranked context *)

Init ==
    /\ pc = "start"
    /\ collection \in {{}, Corpus}
    /\ documents = DocumentRecords
    /\ query \in Queries
    /\ max_results \in 1..MaxResults
    /\ search_results = <<>>
    /\ enhanced_results = <<>>
    /\ context_parts = <<>>
    /\ response = <<>>
    /\ citations = <<>>
    /\ text = <<>>
    /\ chunks = <<>>
    /\ NoGeneration
    /\ NoIngestion
    /\ NoFilter

SearchVectors ==
    /\ pc = "start"
    /\ \E results \in CollectionQuery(collection, max_results) :
           search_results' = ProcessedResults(results)
    /\ pc' = "searched"
    /\ UNCHANGED <<collection, documents, query, max_results, enhanced_results,
                   context_parts, response, citations, text, chunks>>
    /\ UNCHANGED <<genVars, ingestVars, filterVars>>

EnhanceResults ==
    /\ pc = "searched"
    /\ enhanced_results' =
           [i \in DOMAIN search_results |-> EnhancedResult(documents, search_results[i])]
    /\ pc' = "enhanced"
    /\ UNCHANGED <<collection, documents, query, max_results, search_results,
                   context_parts, response, citations, text, chunks>>
    /\ UNCHANGED <<genVars, ingestVars, filterVars>>

RankResults ==
    /\ pc = "enhanced"
    /\ enhanced_results' =
           IF query # <<>> /\ enhanced_results # <<>>
           THEN HybridSearch(query, enhanced_results)
           ELSE enhanced_results
    /\ pc' = "retrieved"
    /\ UNCHANGED <<collection, documents, query, max_results, search_results,
                   context_parts, response, citations, text, chunks>>
    /\ UNCHANGED <<genVars, ingestVars, filterVars>>

Next == SearchVectors \/ EnhanceResults \/ RankResults

Spec == Init /\ [][Next]_vars

---------------------------------------------------------------------------
(* build_context_for_llm.  The context string is kept as the sequence of   *)
(* its parts; a chunk block also names the chunk it renders (chunk_id),    *)
(* and a document header the document (document_id), which the string      *)
(* itself does not hold.                                                   *)

\* the documents of the results, in order of first appearance (dict order)
RECURSIVE GroupOrder(_, _)
GroupOrder(results, seen) ==
    IF results = <<>> THEN seen
    ELSE LET document_id == Head(results).document_id
         IN  IF document_id # <<>> /\ \A k \in DOMAIN seen : seen[k] # document_id
             THEN GroupOrder(Tail(results), Append(seen, document_id))
             ELSE GroupOrder(Tail(results), seen)

\* group_results_by_document: grouped[document_id]
DocResults(results, document_id) ==
    LET InGroup(r) == r.document_id = document_id
    IN  SelectSeq(results, InGroup)

NoPageKey == 9999

\* x.get("page_number") or 9999
PageKey(page_number) ==
    IF page_number = NoneInt \/ page_number = 0 THEN NoPageKey ELSE page_number

\* the sort key (page_number or 9999, chunk_id) of a precedes-or-equals that of b
SortKeyLeq(a, b) ==
    \/ PageKey(a.page_number) < PageKey(b.page_number)
    \/ /\ PageKey(a.page_number) = PageKey(b.page_number)
       /\ StrLeq(a.chunk_id, b.chunk_id)

RECURSIVE InsertByKey(_, _)
InsertByKey(sorted, r) ==
    IF sorted = <<>> THEN <<r>>
    ELSE IF SortKeyLeq(Head(sorted), r)
         THEN <<Head(sorted)>> \o InsertByKey(Tail(sorted), r)
         ELSE <<r>> \o sorted

\* doc_results.sort(key=...): ascending and stable
RECURSIVE SortByPage(_)
SortByPage(doc_results) ==
    IF doc_results = <<>> THEN <<>>
    ELSE InsertByKey(SortByPage(SubSeq(doc_results, 1, Len(doc_results) - 1)),
                     doc_results[Len(doc_results)])

\* f" (Page {page})" if page else ""
PageInfo(page_number) ==
    IF page_number = NoneInt \/ page_number = 0 THEN NoneInt ELSE page_number

\* the block of one result; nothing for an unknown chunk type
ChunkBlock(result) ==
    CASE result.chunk_type = "text" ->
             <<[kind |-> "Text", page |-> PageInfo(result.page_number),
                content |-> result.content, chunk_id |-> result.chunk_id]>>
      [] result.chunk_type = "image" ->
             IF result.content # <<>>
             THEN <<[kind |-> "ImageText", page |-> PageInfo(result.page_number),
                     content |-> result.content, chunk_id |-> result.chunk_id]>>
             ELSE <<[kind |-> "ImagePlaceholder", page |-> PageInfo(result.page_number),
                     image_path |-> result.image_path, chunk_id |-> result.chunk_id]>>
      [] result.chunk_type = "code" ->
             <<[kind |-> "Code",
                language |-> IF result.language = NoneStr THEN "unknown"
                             ELSE result.language,
                content |-> result.content, chunk_id |-> result.chunk_id]>>
      [] OTHER -> <<>>

RECURSIVE ChunkBlocks(_)
ChunkBlocks(doc_results) ==
    IF doc_results = <<>> THEN <<>>
    ELSE ChunkBlock(Head(doc_results)) \o ChunkBlocks(Tail(doc_results))

\* header, sorted blocks and separator of one document
DocumentParts(results, document_id) ==
    LET doc_results == DocResults(results, document_id)
    IN  <<[kind |-> "Document", document_name |-> doc_results[1].document_name,
           document_id |-> document_id]>>
        \o ChunkBlocks(SortByPage(doc_results))
        \o <<[kind |-> "Separator"]>>

RECURSIVE AllDocumentParts(_, _)
AllDocumentParts(results, order) ==
    IF order = <<>> THEN <<>>
    ELSE DocumentParts(results, Head(order)) \o AllDocumentParts(results, Tail(order))

\* the groups one after the other, each in its sorted order
RECURSIVE SortedGroups(_, _)
SortedGroups(results, order) ==
    IF order = <<>> THEN <<>>
    ELSE SortByPage(DocResults(results, Head(order))) \o SortedGroups(results, Tail(order))

\* the caller's list as it would be if the sort reordered the list itself
ResultsInRenderedOrder(results) == SortedGroups(results, GroupOrder(results, <<>>))

\* the caller's list after build_context_for_llm: group_results_by_document
\* appends the items to lists of its own, doc_results.sort reorders those
\* lists, and the items are only read
ResultsAfterBuildContext(results) == results

\* the assembly without the early return for an empty result list
BuildContextForLLMUnguarded(results, q) ==
    <<[kind |-> "Query", query |-> q]>>
    \o AllDocumentParts(results, GroupOrder(results, <<>>))

BuildContextForLLM(results, q) ==
    IF results = <<>> THEN <<[kind |-> "NoInformation"]>>
    ELSE <<[kind |-> "Query", query |-> q]>>
         \o AllDocumentParts(results, GroupOrder(results, <<>>))

\* "No relevant information found."
NoInformationText ==
    <<"N","o"," ","r","e","l","e","v","a","n","t"," ","i","n","f","o","r","m",
      "a","t","i","o","n"," ","f","o","u","n","d",".">>

\* characters of a part that its f-string always yields (the literal text
\* and the character strings; document name, image path and language add
\* to them)
PartMinLength(part) ==
    CASE part.kind = "NoInformation"    -> Len(NoInformationText)
      [] part.kind = "Query"            -> 7 + Len(part.query) + 2
      [] part.kind = "Document"         -> 10 + 1
      [] part.kind = "Text"             -> 4 + 2 + Len(part.content) + 1
      [] part.kind = "ImageText"        -> 5 + 7 + Len(part.content) + 1
      [] part.kind = "ImagePlaceholder" -> 5 + 12 + 2
      [] part.kind = "Code"             -> 6 + 3 + Len(part.content) + 1
      [] part.kind = "Separator"        -> 1

\* lower bound of len("\n".join(context_parts)), exact for the sentinel
ContextMinLength(parts) ==
    IF parts = <<>> THEN 0
    ELSE SumSeq([k \in DOMAIN parts |-> PartMinLength(parts[k])]) + (Len(parts) - 1)

---------------------------------------------------------------------------
(* extract_citations *)

MarkerPrefix == <<"[","D","O","C","_">>

\* end of the run of \d characters that starts at position i (i - 1 if none)
RECURSIVE DigitRunEnd(_, _)
DigitRunEnd(s, i) ==
    IF i <= Len(s) /\ IsDigit(s[i]) THEN DigitRunEnd(s, i + 1) ELSE i - 1

\* re.findall(r'\[DOC_(\d+)\]', response) from position i on
RECURSIVE FindMarkers(_, _)
FindMarkers(s, i) ==
    IF i > Len(s) THEN <<>>
    ELSE LET d == i + Len(MarkerPrefix)
             e == DigitRunEnd(s, d)
         IN  IF /\ d - 1 <= Len(s)
                /\ SubSeq(s, i, d - 1) = MarkerPrefix
                /\ e >= d
                /\ e + 1 <= Len(s)
                /\ s[e + 1] = "]"
             THEN <<SubSeq(s, d, e)>> \o FindMarkers(s, e + 2)
             ELSE FindMarkers(s, i + 1)

\* doc_idx = int(doc_index), without the shift to a zero-based index
MarkerIndexUnshifted(doc_index) == ParseInt(doc_index)

\* doc_idx = int(doc_index) - 1
MarkerIndex(doc_index) == ParseInt(doc_index) - 1

\* the bounds check without its lower bound
InRangeNoLowerBound(doc_idx, context) == doc_idx < Len(context)

\* 0 <= doc_idx < len(context)
InRange(doc_idx, context) == 0 <= doc_idx /\ doc_idx < Len(context)

\* context[doc_idx], a Python list index (negative counts from the end)
ContextItem(context, doc_idx) ==
    IF doc_idx < 0 THEN context[Len(context) + doc_idx + 1] ELSE context[doc_idx + 1]

CitationOf(item) ==
    [document_id   |-> item.document_id,
     document_name |-> item.document_name,
     text          |-> item.content,
     image_url     |-> IF item.chunk_type = "image" THEN item.image_path ELSE NoneStr,
     page_number   |-> item.page_number,
     confidence    |-> item.confidence]

\* a dedup test that never finds the citation
AlreadyCitedNever(cited, citation) == FALSE

\* any(c.document_id == citation.document_id and c.text == citation.text ...)
AlreadyCited(cited, citation) ==
    \E k \in DOMAIN cited :
        cited[k].document_id = citation.document_id /\ cited[k].text = citation.text

\* the loop over citation_matches
RECURSIVE MarkerCitations(_, _, _)
MarkerCitations(matches, context, cited) ==
    IF matches = <<>> THEN cited
    ELSE LET doc_idx == MarkerIndex(Head(matches))
         IN  IF InRange(doc_idx, context)
             THEN LET citation == CitationOf(ContextItem(context, doc_idx))
                  IN  IF ~AlreadyCited(cited, citation)
                      THEN MarkerCitations(Tail(matches), context, Append(cited, citation))
                      ELSE MarkerCitations(Tail(matches), context, cited)
             ELSE MarkerCitations(Tail(matches), context, cited)

\* no fallback citation
WithoutFallback(cited, context) == cited

\* if not citations and context: cite the top result
WithFallback(cited, context) ==
    IF cited = <<>> /\ context # <<>> THEN <<CitationOf(context[1])>> ELSE cited

ExtractCitationsFrom(resp, context) ==
    WithFallback(MarkerCitations(FindMarkers(resp, 1), context, <<>>), context)

---------------------------------------------------------------------------
(* Answers of the generation call: up to MaxMarkers pieces, each a marker  *)
(* (in range, zero, far out of range, non-numeric) or plain words.         *)

DocMarker(digits) == MarkerPrefix \o digits \o <<"]">>

AnswerPieces ==
    {DocMarker(<<"1">>), DocMarker(<<"2">>), DocMarker(<<"3">>), DocMarker(<<"0">>),
     DocMarker(<<"9","9">>), DocMarker(<<"x">>), <<"o","k"," ">>}

RECURSIVE Answers(_)
Answers(n) ==
    IF n = 0 THEN {<<>>}
    ELSE Answers(n - 1) \cup {a \o p : a \in Answers(n - 1), p \in AnswerPieces}

---------------------------------------------------------------------------
(* The query handler: retrieval with the default max_results, the index    *)
(* reporting distances that grow with the rank, then generation and        *)
(* citation extraction.                                                    *)

DefaultMaxResults == 5

RankDistanceStep == 200

InitQuery ==
    /\ pc = "start"
    /\ collection \in SUBSET Corpus
    /\ documents = DocumentRecords
    /\ query = QueryNoKeyword
    /\ max_results = DefaultMaxResults
    /\ search_results = <<>>
    /\ enhanced_results = <<>>
    /\ context_parts = <<>>
    /\ response = <<>>
    /\ citations = <<>>
    /\ text = <<>>
    /\ chunks = <<>>
    /\ NoGeneration
    /\ NoIngestion
    /\ NoFilter

SearchVectorsRanked ==
    /\ pc = "start"
    /\ \E m \in DistinctSeqs(collection, Min(max_results, Cardinality(collection))) :
           search_results' =
               ProcessedResults([i \in DOMAIN m |->
                   [metadata |-> m[i], distance |-> RankDistanceStep * (i - 1)]])
    /\ pc' = "searched"
    /\ UNCHANGED <<collection, documents, query, max_results, enhanced_results,
                   context_parts, response, citations, text, chunks>>
    /\ UNCHANGED <<genVars, ingestVars, filterVars>>

\* collection.query raises: search_vectors, retrieve_context and the query
\* handler have no handler for it, so the exception ends the request
SearchVectorsFails ==
    /\ pc = "start"
    /\ pc' = "index_raised"
    /\ UNCHANGED <<collection, documents, query, max_results, search_results,
                   enhanced_results, context_parts, response, citations, text, chunks>>
    /\ UNCHANGED <<genVars, ingestVars, filterVars>>

NoContext ==
    /\ pc = "retrieved"
    /\ enhanced_results = <<>>
    /\ citations' = <<>>
    /\ pc' = "done"
    /\ UNCHANGED <<collection, documents, query, max_results, search_results,
                   enhanced_results, context_parts, response, text, chunks>>
    /\ UNCHANGED <<genVars, ingestVars, filterVars>>

BuildContext ==
    /\ pc = "retrieved"
    /\ enhanced_results # <<>>
    /\ context_parts' = BuildContextForLLM(enhanced_results, query)
    /\ enhanced_results' = ResultsAfterBuildContext(enhanced_results)
    /\ pc' = "context"
    /\ UNCHANGED <<collection, documents, query, max_results, search_results,
                   response, citations, text, chunks>>
    /\ UNCHANGED <<genVars, ingestVars, filterVars>>

GenerateResponse ==
    /\ pc = "context"
    /\ response' \in Answers(MaxMarkers)
    /\ pc' = "generated"
    /\ UNCHANGED <<collection, documents, query, max_results, search_results,
                   enhanced_results, context_parts, citations, text, chunks>>
    /\ UNCHANGED <<genVars, ingestVars, filterVars>>

ExtractCitations ==
    /\ pc = "generated"
    /\ citations' = ExtractCitationsFrom(response, enhanced_results)
    /\ pc' = "cited"
    /\ UNCHANGED <<collection, documents, query, max_results, search_results,
                   enhanced_results, context_parts, response, text, chunks>>
    /\ UNCHANGED <<genVars, ingestVars, filterVars>>

NextQuery ==
    \/ SearchVectorsRanked
    \/ SearchVectorsFails
    \/ EnhanceResults
    \/ RankResults
    \/ NoContext
    \/ BuildContext
    \/ GenerateResponse
    \/ ExtractCitations

SpecQuery == InitQuery /\ [][NextQuery]_vars

---------------------------------------------------------------------------
(* build_context_for_llm on its own: any ranked list, the empty one        *)
(* included, and any query.                                                *)

\* the ranked lists of up to MaxResults chunks of the corpus
RankedLists ==
    UNION {{[i \in 1..n |->
                EnhancedResult(DocumentRecords,
                    [id         |-> m[i].chunk_id,
                     metadata   |-> m[i],
                     confidence |-> DistanceToConfidence(RankDistanceStep * (i - 1))])] :
            m \in DistinctSeqs(Corpus, n)} : n \in 0..MaxResults}

InitContext ==
    /\ pc = "results"
    /\ enhanced_results \in RankedLists
    /\ query \in Queries
    /\ collection = Corpus
    /\ documents = DocumentRecords
    /\ max_results = MaxResults
    /\ search_results = <<>>
    /\ context_parts = <<>>
    /\ response = <<>>
    /\ citations = <<>>
    /\ text = <<>>
    /\ chunks = <<>>
    /\ NoGeneration
    /\ NoIngestion
    /\ NoFilter

AssembleContext ==
    /\ pc = "results"
    /\ context_parts' = BuildContextForLLM(enhanced_results, query)
    /\ enhanced_results' = ResultsAfterBuildContext(enhanced_results)
    /\ pc' = "assembled"
    /\ UNCHANGED <<collection, documents, query, max_results, search_results,
                   response, citations, text, chunks>>
    /\ UNCHANGED <<genVars, ingestVars, filterVars>>

NextContext == AssembleContext

SpecContext == InitContext /\ [][NextContext]_vars

---------------------------------------------------------------------------
(* generate_response: the text path retries the call, the multimodal path  *)
(* makes one call; either returns the error sentence when it gives up.     *)

\* LLM_MODEL: the default and a model without image input
LlmModels == {"gpt-4-vision-preview", "gpt-3.5-turbo"}

\* LLM_MODEL.startswith("gpt-4-vision")
IsVisionModel(model) == model = "gpt-4-vision-preview"

\* any(item.get("chunk_type") == "image" and item.get("image_path") ...)
HasImages(context) ==
    \E k \in DOMAIN context :
        context[k].chunk_type = "image" /\ context[k].image_path # NoneStr

\* max_retries
MaxRetries == 3

\* "I encountered an error while generating a response: "
ErrorPrefix ==
    <<"I"," ","e","n","c","o","u","n","t","e","r","e","d"," ","a","n"," ",
      "e","r","r","o","r"," ","w","h","i","l","e"," ","g","e","n","e","r",
      "a","t","i","n","g"," ","a"," ","r","e","s","p","o","n","s","e",":"," ">>

\* str(e) of the exceptions of the call
CallErrors == {<<"t","i","m","e","o","u","t">>}

ErrorAnswer(e) == ErrorPrefix \o e

\* answers of a call that succeeds
CallAnswers == Answers(1)

\* the handler of the last failed attempt lets the exception pass
GiveUpRaising(e) == [pc |-> "generation_raised", response |-> <<>>]

\* the handler of the last failed attempt returns the error sentence
GiveUp(e) == [pc |-> "generated", response |-> ErrorAnswer(e)]

InitGenerate ==
    /\ pc = "start"
    /\ collection \in SUBSET Corpus
    /\ documents = DocumentRecords
    /\ query = QueryNoKeyword
    /\ max_results = DefaultMaxResults
    /\ search_results = <<>>
    /\ enhanced_results = <<>>
    /\ context_parts = <<>>
    /\ response = <<>>
    /\ citations = <<>>
    /\ text = <<>>
    /\ chunks = <<>>
    /\ \E model \in LlmModels : generation = [IdleGeneration EXCEPT !.model = model]
    /\ NoIngestion
    /\ NoFilter

\* generate_response chooses the path after building the context string
SelectPath ==
    /\ pc = "context"
    /\ generation' = [generation EXCEPT
           !.path = IF HasImages(enhanced_results) /\ IsVisionModel(generation.model)
                    THEN "multimodal" ELSE "text"]
    /\ pc' = "generating"
    /\ UNCHANGED <<collection, documents, query, max_results, search_results,
                   enhanced_results, context_parts, response, citations, text, chunks>>
    /\ UNCHANGED <<ingestVars, filterVars>>

\* one pass of the retry loop of generate_text_response
TextAttempt ==
    /\ pc = "generating"
    /\ generation.path = "text"
    /\ generation.attempts < MaxRetries
    /\ \/ \E answer \in CallAnswers :
              /\ response' = answer
              /\ pc' = "generated"
              /\ generation' = [generation EXCEPT !.attempts = @ + 1,
                                                  !.outcomes = Append(@, "ok")]
       \/ \E e \in CallErrors :
              /\ generation' = [generation EXCEPT !.attempts = @ + 1,
                                                  !.outcomes = Append(@, "failed")]
              /\ IF generation.attempts = MaxRetries - 1
                 THEN /\ pc' = GiveUp(e).pc
                      /\ response' = GiveUp(e).response
                 ELSE UNCHANGED <<pc, response>>
    /\ UNCHANGED <<collection, documents, query, max_results, search_results,
                   enhanced_results, context_parts, citations, text, chunks>>
    /\ UNCHANGED <<ingestVars, filterVars>>

\* the single call of generate_multimodal_response
MultimodalAttempt ==
    /\ pc = "generating"
    /\ generation.path = "multimodal"
    /\ \/ \E answer \in CallAnswers :
              /\ response' = answer
              /\ pc' = "generated"
              /\ generation' = [generation EXCEPT !.attempts = @ + 1,
                                                  !.outcomes = Append(@, "ok")]
       \/ \E e \in CallErrors :
              /\ generation' = [generation EXCEPT !.attempts = @ + 1,
                                                  !.outcomes = Append(@, "failed")]
              /\ pc' = GiveUp(e).pc
              /\ response' = GiveUp(e).response
    /\ UNCHANGED <<collection, documents, query, max_results, search_results,
                   enhanced_results, context_parts, citations, text, chunks>>
    /\ UNCHANGED <<ingestVars, filterVars>>

NextGenerate ==
    \/ SearchVectorsRanked
    \/ EnhanceResults
    \/ RankResults
    \/ NoContext
    \/ BuildContext
    \/ SelectPath
    \/ TextAttempt
    \/ MultimodalAttempt
    \/ ExtractCitations

SpecGenerate == InitGenerate /\ [][NextGenerate]_vars

---------------------------------------------------------------------------
(* chunk_text.  A document text is a sequence of runs of characters: a     *)
(* run of n non-whitespace characters (word i of paragraph p), one space   *)
(* or one newline.  len() is the sum of the run lengths.                   *)

WordRun(p, i, n) == [c |-> "w", p |-> p, i |-> i, n |-> n]

Space == [c |-> " ", p |-> 0, i |-> 0, n |-> 1]

Newline == [c |-> "\n", p |-> 0, i |-> 0, n |-> 1]

IsWhitespace(a) == a.c # "w"

\* len(s)
StrLen(s) == SumSeq([k \in DOMAIN s |-> s[k].n])

\* the elements of a set of integers in ascending order
Ascending(S) ==
    [k \in 1..Cardinality(S) |->
        CHOOSE x \in S : Cardinality({y \in S : y < x}) = k - 1]

\* str.strip(): from the first to the last non-whitespace run
Strip(s) ==
    LET solid == {k \in DOMAIN s : ~IsWhitespace(s[k])}
    IN  IF solid = {} THEN <<>>
        ELSE SubSeq(s, CHOOSE k \in solid : \A m \in solid : k <= m,
                       CHOOSE k \in solid : \A m \in solid : m <= k)

\* positions where text.split('\n\n') finds its separator: scanning from the
\* left without overlap, the 1st, 3rd, ... newline of every run of newlines
\* that is followed by another newline of the run
BlankLineBreaks(s) ==
    {k \in 1..(Len(s) - 1) :
        /\ s[k] = Newline
        /\ s[k + 1] = Newline
        /\ LET run_start == CHOOSE j \in 1..k :
                                /\ \A m \in j..k : s[m] = Newline
                                /\ j = 1 \/ s[j - 1] # Newline
           IN  (k - run_start) % 2 = 0}

\* text.split('\n\n')
SplitOnBlankLine(s) ==
    LET breaks == Ascending(BlankLineBreaks(s))
    IN  [k \in 1..(Len(breaks) + 1) |->
            SubSeq(s, IF k = 1 THEN 1 ELSE breaks[k - 1] + 2,
                      IF k <= Len(breaks) THEN breaks[k] - 1 ELSE Len(s))]

\* [p.strip() for p in text.split('\n\n') if p.strip()]
Paragraphs(t) ==
    LET pieces   == SplitOnBlankLine(t)
        stripped == [k \in DOMAIN pieces |-> Strip(pieces[k])]
        NonEmpty(piece) == piece # <<>>
    IN  SelectSeq(stripped, NonEmpty)

\* str.split(): the maximal runs of non-whitespace
SplitWords(s) ==
    LET starts == Ascending({k \in DOMAIN s :
                      ~IsWhitespace(s[k]) /\ (k = 1 \/ IsWhitespace(s[k - 1]))})
        ends   == Ascending({k \in DOMAIN s :
                      ~IsWhitespace(s[k]) /\ (k = Len(s) \/ IsWhitespace(s[k + 1]))})
    IN  [k \in DOMAIN starts |-> SubSeq(s, starts[k], ends[k])]

\* ' '.join(words)
RECURSIVE JoinWords(_)
JoinWords(words) ==
    IF words = <<>> THEN <<>>
    ELSE IF Len(words) = 1 THEN words[1]
    ELSE words[1] \o <<Space>> \o JoinWords(Tail(words))

TEXT_CHUNK_SIZE == 1000

TEXT_CHUNK_OVERLAP == 200

OverlapDivisor == 10

\* every word of the closed chunk is carried over
OverlapWordsAll(words) == words

\* no word of the closed chunk is carried over
OverlapWordsNone(words) == <<>>

\* words[-min(len(words), TEXT_CHUNK_OVERLAP // 10):]
OverlapWords(words) ==
    LET k == Min(Len(words), TEXT_CHUNK_OVERLAP \div OverlapDivisor)
    IN  IF k = 0 THEN words ELSE SubSeq(words, Len(words) - k + 1, Len(words))

ParagraphBreak == <<Newline, Newline>>

\* the last chunk is not appended
FinalChunksUnflushed(done, current_chunk) == done

\* if current_chunk: chunks.append(current_chunk.strip())
FinalChunks(done, current_chunk) ==
    IF current_chunk # <<>> THEN Append(done, Strip(current_chunk)) ELSE done

\* the loop over the paragraphs
RECURSIVE ChunkLoop(_, _, _)
ChunkLoop(paragraphs, done, current_chunk) ==
    IF paragraphs = <<>> THEN FinalChunks(done, current_chunk)
    ELSE LET paragraph == Head(paragraphs)
         IN  IF /\ StrLen(current_chunk) + StrLen(paragraph) > TEXT_CHUNK_SIZE
                /\ current_chunk # <<>>
             THEN ChunkLoop(Tail(paragraphs),
                            Append(done, Strip(current_chunk)),
                            JoinWords(OverlapWords(SplitWords(current_chunk)))
                                \o ParagraphBreak \o paragraph)
             ELSE ChunkLoop(Tail(paragraphs), done,
                            IF current_chunk # <<>>
                            THEN current_chunk \o ParagraphBreak \o paragraph
                            ELSE paragraph)

ChunkText(t) ==
    IF t = <<>> THEN <<>> ELSE ChunkLoop(Paragraphs(t), <<>>, <<>>)

---------------------------------------------------------------------------
(* Document texts: up to MaxParas pieces separated by blank lines.  A      *)
(* piece is blank, a short paragraph, a paragraph with blanks around it    *)
(* and a line break inside, a 599-character paragraph of 25 words, a       *)
(* 401-character paragraph, or a 1202-character paragraph.                 *)

\* k words of n characters each, single spaces between them
RECURSIVE WordsOf(_, _, _)
WordsOf(p, k, n) ==
    IF k = 1 THEN <<WordRun(p, 1, n)>>
    ELSE WordsOf(p, k - 1, n) \o <<Space, WordRun(p, k, n)>>

PieceShapes == {"blank", "short", "lines", "long", "medium", "oversize"}

Piece(shape, p) ==
    CASE shape = "blank"    -> <<Space>>
      [] shape = "short"    -> WordsOf(p, 3, 9)
      [] shape = "lines"    -> <<Space, WordRun(p, 1, 5), Newline, WordRun(p, 2, 5), Space>>
      [] shape = "long"     -> WordsOf(p, 25, 23)
      [] shape = "medium"   -> WordsOf(p, 2, 200)
      [] shape = "oversize" -> WordsOf(p, 3, 400)

RECURSIVE TextOf(_, _)
TextOf(shapes, p) ==
    IF p > Len(shapes) THEN <<>>
    ELSE IF p = Len(shapes) THEN Piece(shapes[p], p)
    ELSE Piece(shapes[p], p) \o ParagraphBreak \o TextOf(shapes, p + 1)

Texts == UNION {{TextOf(shapes, 1) : shapes \in [1..n -> PieceShapes]} : n \in 0..MaxParas}

---------------------------------------------------------------------------
(* Segmentation of an uploaded text *)

InitChunk ==
    /\ pc = "extracted"
    /\ text \in Texts
    /\ chunks = <<>>
    /\ collection = {}
    /\ documents = {}
    /\ query = <<>>
    /\ max_results = DefaultMaxResults
    /\ search_results = <<>>
    /\ enhanced_results = <<>>
    /\ context_parts = <<>>
    /\ response = <<>>
    /\ citations = <<>>
    /\ NoGeneration
    /\ NoIngestion
    /\ NoFilter

SegmentText ==
    /\ pc = "extracted"
    /\ chunks' = ChunkText(text)
    /\ pc' = "chunked"
    /\ UNCHANGED <<collection, documents, query, max_results, search_results,
                   enhanced_results, context_parts, response, citations, text>>
    /\ UNCHANGED <<genVars, ingestVars, filterVars>>

NextChunk == SegmentText

SpecChunk == InitChunk /\ [][NextChunk]_vars

---------------------------------------------------------------------------
(* Embedding (embedder.py).  A vector is kept as its dimensionality and    *)
(* whether it is the zero vector; Raised stands for an exception leaving   *)
(* the embedding function.                                                 *)

\* get_sentence_embedding_dimension() of the configured all-MiniLM-L6-v2
TextEmbeddingDim == 384

\* np.zeros(512), the dimensionality of the joint image/text model
ClipDim == 512

Vector(dim, zero) == [raised |-> FALSE, dim |-> dim, zero |-> zero]

Raised == [raised |-> TRUE, dim |-> 0, zero |-> FALSE]

\* embed_text: zeros for empty text, else encode(), which may raise
EmbedText(t) ==
    IF t = <<>> THEN {Vector(TextEmbeddingDim, TRUE)}
    ELSE {Vector(TextEmbeddingDim, FALSE), Raised}

\* embed_image: zeros(512) for a missing file; with the joint model its
\* image features, else the text embedding of the OCR text (empty when OCR
\* finds nothing or fails); any exception gives the zero vector
EmbedImage(image_info, clip) ==
    {Vector(ClipDim, TRUE)}
    \cup IF clip
         THEN {Vector(ClipDim, FALSE), Vector(ClipDim, TRUE)}
         ELSE {IF v.raised THEN Vector(TextEmbeddingDim, TRUE) ELSE v :
                   v \in EmbedText(image_info.text) \cup EmbedText(<<>>)}

\* embed_code: zeros for an empty snippet, else embed_text of the snippet
\* behind its "Language: ..." line
EmbedCode(processed_snippet) ==
    IF processed_snippet.snippet = <<>> THEN {Vector(TextEmbeddingDim, TRUE)}
    ELSE EmbedText(<<WordRun(0, 1, 8)>> \o processed_snippet.snippet)

---------------------------------------------------------------------------
(* Uploaded files and what extraction yields from them.  Contents are      *)
(* sequences of character runs, as in chunk_text.                          *)

DocumentTypes == {"pdf", "image", "markdown", "html", "text"}

\* a file name with the extension upload_document maps to the type
FileName(document_type) ==
    CASE document_type = "pdf"      -> "manual.pdf"
      [] document_type = "image"    -> "figure.png"
      [] document_type = "markdown" -> "guide.md"
      [] document_type = "html"     -> "page.html"
      [] document_type = "text"     -> "notes.txt"

\* the text of a file: MaxChunks paragraphs of 1202 characters, one chunk each
UploadedText == TextOf([k \in 1..MaxChunks |-> "oversize"], 1)

\* an image of a PDF page, without OCR text
PdfImage == [path |-> "page1_img1.png", text |-> <<>>, page_number |-> 1]

\* process_image's result for an uploaded image with OCR text
ProcessedImage == [path |-> "figure.png", text |-> WordsOf(0, 1, 3), page_number |-> NoneInt]

\* a code snippet of 17 characters
Snippet == WordsOf(0, 3, 5)

\* process_code
ProcessCode(snippet) == [language |-> "python", snippet |-> snippet]

Extracted(failed, text_content, images, code_snippets) ==
    [failed        |-> failed,
     text_chunks   |-> ChunkText(text_content),
     images        |-> images,
     code_snippets |-> code_snippets]

\* what the extraction branch of a type leaves in text_chunks, images and
\* code_snippets: the content of the file, or nothing when the extractor
\* fails (the extractors of pdf, image, markdown and html catch the failure
\* and return an empty text, an empty list or None)
ExtractOutcomes(document_type) ==
    CASE document_type = "pdf" ->
             {Extracted(FALSE, UploadedText, <<PdfImage>>, <<>>),
              Extracted(TRUE, <<>>, <<>>, <<>>)}
      [] document_type = "image" ->
             {Extracted(FALSE, <<>>, <<ProcessedImage>>, <<>>),
              Extracted(TRUE, <<>>, <<>>, <<>>)}
      [] document_type \in {"markdown", "html", "text"} ->
             {Extracted(FALSE, UploadedText, <<>>, <<Snippet>>),
              Extracted(TRUE, <<>>, <<>>, <<>>)}

---------------------------------------------------------------------------
(* The metadata database and the index *)

\* INSERT OR REPLACE of a row with the key
Upsert(table, key, row) ==
    {r \in table : r[key] # row[key]} \cup {row}

DocumentRecord(document_id, job, completed) ==
    [document_id       |-> document_id,
     filename          |-> job.filename,
     document_type     |-> job.document_type,
     error             |-> job.error,
     num_text_chunks   |-> IF completed THEN Len(job.text_chunks) ELSE NoneInt,
     num_images        |-> IF completed THEN Len(job.images) ELSE NoneInt,
     num_code_snippets |-> IF completed THEN Len(job.code_snippets) ELSE NoneInt]

\* the variables of a query request
requestVars == <<pc, query, max_results, search_results, enhanced_results,
                 context_parts, response, citations, text, chunks>>

---------------------------------------------------------------------------
(* Ingestion: upload_document queues process_document as a background      *)
(* task; the tasks of different uploads run concurrently, one loop         *)
(* iteration or store call at a time.  delete_document and a query of the  *)
(* combined index may run at any time.                                     *)

InitIngest ==
    /\ pc = "start"
    /\ collection = {}
    /\ documents = {}
    /\ query = <<>>
    /\ max_results = 1
    /\ search_results = <<>>
    /\ enhanced_results = <<>>
    /\ context_parts = <<>>
    /\ response = <<>>
    /\ citations = <<>>
    /\ text = <<>>
    /\ chunks = <<>>
    /\ NoGeneration
    /\ jobs = [d \in UploadIds |-> IdleJob]
    /\ chunk_table = {}
    /\ embeddings = {}
    /\ metadata_files = {}
    /\ env_dirs_set \in BOOLEAN
    /\ has_clip \in BOOLEAN
    /\ NoFilter

\* upload_document: the type follows from the extension, the file is saved
\* and process_document is queued
UploadDocument(d) ==
    /\ jobs[d].pc = "none"
    /\ \E document_type \in DocumentTypes :
           jobs' = [jobs EXCEPT ![d] = [@ EXCEPT !.pc = "queued",
                                                  !.filename = FileName(document_type),
                                                  !.document_type = document_type]]
    /\ UNCHANGED <<collection, documents, chunk_table, embeddings, metadata_files,
                   env_dirs_set, has_clip>>
    /\ UNCHANGED <<requestVars, genVars, filterVars>>

\* process_document up to the extraction: returns at once when one of the
\* two directory variables is not in the environment
StartProcessing(d) ==
    /\ jobs[d].pc = "queued"
    /\ jobs' = [jobs EXCEPT ![d].pc = IF env_dirs_set THEN "extract" ELSE "returned"]
    /\ UNCHANGED <<collection, documents, chunk_table, embeddings, metadata_files,
                   env_dirs_set, has_clip>>
    /\ UNCHANGED <<requestVars, genVars, filterVars>>

\* the extraction branch of the document type; only the plain-text branch
\* catches a failure itself, stores the error and returns
ExtractContent(d) ==
    /\ jobs[d].pc = "extract"
    /\ \E outcome \in ExtractOutcomes(jobs[d].document_type) :
           IF jobs[d].document_type = "text" /\ outcome.failed
           THEN LET job == [jobs[d] EXCEPT !.pc = "halted",
                                           !.error = "read error",
                                           !.extract_failed = TRUE]
                IN  /\ jobs' = [jobs EXCEPT ![d] = job]
                    /\ documents' = Upsert(documents, "document_id",
                                           DocumentRecord(d, job, FALSE))
           ELSE /\ jobs' = [jobs EXCEPT ![d] =
                               [@ EXCEPT !.pc = "embed",
                                         !.text_chunks = outcome.text_chunks,
                                         !.images = outcome.images,
                                         !.code_snippets = outcome.code_snippets,
                                         !.extract_failed = outcome.failed]]
                /\ UNCHANGED documents
    /\ UNCHANGED <<collection, chunk_table, embeddings, metadata_files,
                   env_dirs_set, has_clip>>
    /\ UNCHANGED <<requestVars, genVars, filterVars>>

\* one iteration of a loop: the vector and metadata are appended and the
\* chunk row is stored, or the exception of the embedding leaves
\* process_document
EmbedStep(d, outcomes, chunk_metadata) ==
    /\ \E vector \in outcomes :
           IF vector.raised
           THEN /\ jobs' = [jobs EXCEPT ![d].pc = "embedding_raised"]
                /\ UNCHANGED chunk_table
           ELSE /\ jobs' = [jobs EXCEPT ![d].vectors =
                               Append(@, [vector |-> vector, metadata |-> chunk_metadata])]
                /\ chunk_table' = Upsert(chunk_table, "chunk_id", chunk_metadata)
    /\ UNCHANGED <<collection, documents, embeddings, metadata_files,
                   env_dirs_set, has_clip>>
    /\ UNCHANGED <<requestVars, genVars, filterVars>>

\* for i, chunk in enumerate(text_chunks)
EmbedTextChunk(d) ==
    /\ jobs[d].pc = "embed"
    /\ Len(jobs[d].vectors) < Len(jobs[d].text_chunks)
    /\ LET i == Len(jobs[d].vectors)
           chunk == jobs[d].text_chunks[i + 1]
       IN  EmbedStep(d, EmbedText(chunk), TextChunkMetadata(d, i, chunk))

\* for i, image_info in enumerate(images)
EmbedImageChunk(d) ==
    /\ jobs[d].pc = "embed"
    /\ Len(jobs[d].vectors) >= Len(jobs[d].text_chunks)
    /\ Len(jobs[d].vectors) < Len(jobs[d].text_chunks) + Len(jobs[d].images)
    /\ LET i == Len(jobs[d].vectors) - Len(jobs[d].text_chunks)
           image_info == jobs[d].images[i + 1]
       IN  EmbedStep(d, EmbedImage(image_info, has_clip),
                     ImageChunkMetadata(d, i, image_info))

\* for i, snippet in enumerate(code_snippets)
EmbedCodeChunk(d) ==
    /\ jobs[d].pc = "embed"
    /\ Len(jobs[d].vectors) >= Len(jobs[d].text_chunks) + Len(jobs[d].images)
    /\ Len(jobs[d].vectors)
           < Len(jobs[d].text_chunks) + Len(jobs[d].images) + Len(jobs[d].code_snippets)
    /\ LET i == Len(jobs[d].vectors) - Len(jobs[d].text_chunks) - Len(jobs[d].images)
           snippet == jobs[d].code_snippets[i + 1]
           processed_snippet == ProcessCode(snippet)
       IN  EmbedStep(d, EmbedCode(processed_snippet),
                     CodeChunkMetadata(d, i, snippet, processed_snippet.language))

\* store_vectors(document_id, vectors, metadatas), skipped when all_vectors
\* is empty; the document's own collection receives the same entries
StoreVectors(d) ==
    /\ jobs[d].pc = "embed"
    /\ Len(jobs[d].vectors)
           = Len(jobs[d].text_chunks) + Len(jobs[d].images) + Len(jobs[d].code_snippets)
    /\ collection' = collection \cup {jobs[d].vectors[k].metadata : k \in DOMAIN jobs[d].vectors}
    /\ embeddings' = embeddings \cup
           {[chunk_id |-> jobs[d].vectors[k].metadata.chunk_id,
             dim      |-> jobs[d].vectors[k].vector.dim,
             zero     |-> jobs[d].vectors[k].vector.zero] : k \in DOMAIN jobs[d].vectors}
    /\ jobs' = [jobs EXCEPT ![d].pc = "store_document"]
    /\ UNCHANGED <<documents, chunk_table, metadata_files, env_dirs_set, has_clip>>
    /\ UNCHANGED <<requestVars, genVars, filterVars>>

\* store_metadata and store_document_metadata with the three counts
StoreDocumentMetadata(d) ==
    /\ jobs[d].pc = "store_document"
    /\ metadata_files' = metadata_files \cup {d}
    /\ documents' = Upsert(documents, "document_id", DocumentRecord(d, jobs[d], TRUE))
    /\ jobs' = [jobs EXCEPT ![d].pc = "done"]
    /\ UNCHANGED <<collection, chunk_table, embeddings, env_dirs_set, has_clip>>
    /\ UNCHANGED <<requestVars, genVars, filterVars>>

\* delete_document: the chunk rows and the document row of the id
DeleteDocument(d) ==
    /\ jobs[d].pc # "none"
    /\ chunk_table' = {r \in chunk_table : r.document_id # d}
    /\ documents' = {r \in documents : r.document_id # d}
    /\ UNCHANGED <<collection, jobs, embeddings, metadata_files, env_dirs_set, has_clip>>
    /\ UNCHANGED <<requestVars, genVars, filterVars>>

NextIngest ==
    \/ \E d \in UploadIds : UploadDocument(d)
    \/ \E d \in UploadIds : StartProcessing(d)
    \/ \E d \in UploadIds : ExtractContent(d)
    \/ \E d \in UploadIds : EmbedTextChunk(d)
    \/ \E d \in UploadIds : EmbedImageChunk(d)
    \/ \E d \in UploadIds : EmbedCodeChunk(d)
    \/ \E d \in UploadIds : StoreVectors(d)
    \/ \E d \in UploadIds : StoreDocumentMetadata(d)
    \/ \E d \in UploadIds : DeleteDocument(d)
    \/ SearchVectorsRanked

SpecIngest == InitIngest /\ [][NextIngest]_vars

\* the same with the remaining steps of retrieve_context, in a process with
\* both directories configured and the joint image/text model loaded
InitIngestQuery ==
    /\ InitIngest
    /\ env_dirs_set
    /\ has_clip

NextIngestQuery ==
    \/ NextIngest
    \/ EnhanceResults
    \/ RankResults

SpecIngestQuery == InitIngestQuery /\ [][NextIngestQuery]_vars

---------------------------------------------------------------------------
(* Hybrid ranking: claims C1 - C3 *)

\* retrieve_context handed the enhanced results to hybrid_search
HybridCalled == pc = "retrieved" /\ query # <<>> /\ search_results # <<>>

\* position of the chunk in hybrid_search's input and in its output
InputPos(chunk_id) == CHOOSE i \in DOMAIN search_results : search_results[i].id = chunk_id

OutputPos(chunk_id) ==
    CHOOSE i \in DOMAIN enhanced_results : enhanced_results[i].chunk_id = chunk_id

\* the content holds at least one keyword of the query, case-insensitively
HasOverlap(content) ==
    \E i \in DOMAIN Keywords(query) : Contains(Lower(content), Keywords(query)[i])

\* C1: every result leaves hybrid_search with a confidence that is at least
\* its original confidence and at most 0.99.
C1_AdjustedWithinBounds ==
    HybridCalled =>
        \A i \in DOMAIN enhanced_results :
            /\ enhanced_results[i].confidence
                   >= search_results[InputPos(enhanced_results[i].chunk_id)].confidence
            /\ enhanced_results[i].confidence <= ConfidenceCap

\* C2: a result A with keyword overlap that precedes a result B without
\* overlap in the input, with A's original confidence >= B's, still
\* precedes B in the output.
C2_OverlapKeepsPrecedence ==
    HybridCalled =>
        \A i, j \in DOMAIN search_results :
            ( /\ i < j
              /\ search_results[i].confidence >= search_results[j].confidence
              /\ HasOverlap(search_results[i].metadata.content)
              /\ ~HasOverlap(search_results[j].metadata.content) )
            => OutputPos(search_results[i].id) < OutputPos(search_results[j].id)

\* C3: the list hybrid_search returns is a permutation of its input, in
\* descending order of adjusted confidence, and results of equal adjusted
\* confidence keep their input order.
C3_StableDescendingPermutation ==
    HybridCalled =>
        /\ Len(enhanced_results) = Len(search_results)
        /\ \A i \in DOMAIN search_results :
               \E k \in DOMAIN enhanced_results :
                   [enhanced_results[k] EXCEPT !.confidence = search_results[i].confidence]
                       = EnhancedResult(documents, search_results[i])
        /\ \A k, l \in DOMAIN enhanced_results :
               k < l =>
                   /\ enhanced_results[k].confidence >= enhanced_results[l].confidence
                   /\ enhanced_results[k].confidence = enhanced_results[l].confidence
                          => InputPos(enhanced_results[k].chunk_id)
                                 < InputPos(enhanced_results[l].chunk_id)

\* a boost reordered the results and left two of them, one boosted, tied
C3_Witness ==
    /\ HybridCalled
    /\ \E k \in DOMAIN enhanced_results : InputPos(enhanced_results[k].chunk_id) # k
    /\ \E k, l \in DOMAIN enhanced_results :
           /\ k < l
           /\ enhanced_results[k].confidence = enhanced_results[l].confidence
           /\ search_results[InputPos(enhanced_results[k].chunk_id)].confidence
                  # search_results[InputPos(enhanced_results[l].chunk_id)].confidence

---------------------------------------------------------------------------
(* Citation extraction: claims C4 - C7 *)

\* extract_citations has returned
Cited == pc = "cited"

\* the numbers i of the markers [DOC_i] of the answer, in order of occurrence
MarkerNumbers ==
    LET found == FindMarkers(response, 1)
    IN  [k \in DOMAIN found |-> ParseInt(found[k])]

\* marker number n lies in 1..len(result list)
Resolvable(n) == n \in 1..Len(enhanced_results)

NoResolvableMarker == \A k \in DOMAIN MarkerNumbers : ~Resolvable(MarkerNumbers[k])

\* the citation carries the fields of the result item
BuiltFrom(citation, item) ==
    /\ citation.document_id = item.document_id
    /\ citation.document_name = item.document_name
    /\ citation.text = item.content
    /\ citation.page_number = item.page_number
    /\ citation.confidence = item.confidence

\* two result items with the same (document_id, content)
SameEvidence(a, b) == a.document_id = b.document_id /\ a.content = b.content

\* the answer's markers are [DOC_1] and [DOC_3], [DOC_1] first, against a
\* 5-item result list
DocOneAndThreeOfFive ==
    /\ Cited
    /\ Len(enhanced_results) = 5
    /\ MarkerNumbers # <<>>
    /\ Range(MarkerNumbers) = {1, 3}
    /\ MarkerNumbers[1] = 1

\* C4 as stated: markers [DOC_1] and [DOC_3] against any 5-item list give
\* exactly two citations, from the items at index 0 and index 2, in that order.
C4_TwoCitationsForAnyList ==
    DocOneAndThreeOfFive =>
        /\ Len(citations) = 2
        /\ BuiltFrom(citations[1], enhanced_results[1])
        /\ BuiltFrom(citations[2], enhanced_results[3])

\* C4 amended: two citations, from index 0 then index 2, when the two items
\* differ in document id or content; one citation, from index 0, when they
\* share both.
C4_TwoCitationsUnlessSameEvidence ==
    DocOneAndThreeOfFive =>
        IF SameEvidence(enhanced_results[1], enhanced_results[3])
        THEN /\ Len(citations) = 1
             /\ BuiltFrom(citations[1], enhanced_results[1])
        ELSE /\ Len(citations) = 2
             /\ BuiltFrom(citations[1], enhanced_results[1])
             /\ BuiltFrom(citations[2], enhanced_results[3])

C4_Witness ==
    /\ DocOneAndThreeOfFive
    /\ ~SameEvidence(enhanced_results[1], enhanced_results[3])
    /\ Len(citations) = 2

\* C5: a non-empty result list always yields at least one citation, and an
\* answer without a resolvable marker yields exactly one, carrying the
\* document id, name, text, page number and confidence of the top item.
C5_FallbackCitation ==
    (Cited /\ enhanced_results # <<>>) =>
        /\ Len(citations) >= 1
        /\ NoResolvableMarker =>
               /\ Len(citations) = 1
               /\ BuiltFrom(citations[1], enhanced_results[1])

C5_Witness ==
    /\ Cited
    /\ Len(enhanced_results) >= 2
    /\ response # <<>>
    /\ NoResolvableMarker
    /\ Len(citations) = 1

\* C6: a marker whose number is outside 1..len(result list) contributes no
\* citation: every citation is built from the item of a resolvable marker
\* (or is the fallback when there is none), and every resolvable marker's
\* evidence is cited whatever other markers the answer holds.
C6_OutOfRangeMarkerIgnored ==
    Cited =>
        /\ \A c \in DOMAIN citations :
               \/ \E k \in DOMAIN MarkerNumbers :
                      /\ Resolvable(MarkerNumbers[k])
                      /\ BuiltFrom(citations[c], enhanced_results[MarkerNumbers[k]])
               \/ /\ NoResolvableMarker
                  /\ BuiltFrom(citations[c], enhanced_results[1])
        /\ \A k \in DOMAIN MarkerNumbers :
               Resolvable(MarkerNumbers[k]) =>
                   \E c \in DOMAIN citations :
                       /\ citations[c].document_id
                              = enhanced_results[MarkerNumbers[k]].document_id
                       /\ citations[c].text = enhanced_results[MarkerNumbers[k]].content

\* an answer with an out-of-range marker next to a resolvable one
C6_Witness ==
    /\ Cited
    /\ Len(enhanced_results) >= 2
    /\ \E k \in DOMAIN MarkerNumbers : ~Resolvable(MarkerNumbers[k])
    /\ \E k \in DOMAIN MarkerNumbers : Resolvable(MarkerNumbers[k])
    /\ Len(citations) = 1

\* position of the first marker that resolves to the citation's evidence
FirstMarkerOf(citation) ==
    CHOOSE k \in DOMAIN MarkerNumbers :
        /\ Resolvable(MarkerNumbers[k])
        /\ citation.document_id = enhanced_results[MarkerNumbers[k]].document_id
        /\ citation.text = enhanced_results[MarkerNumbers[k]].content
        /\ \A l \in 1..(k - 1) :
               ~ ( /\ Resolvable(MarkerNumbers[l])
                   /\ citation.document_id = enhanced_results[MarkerNumbers[l]].document_id
                   /\ citation.text = enhanced_results[MarkerNumbers[l]].content )

\* C7: no two citations share (document_id, text), and the citations stand
\* in the order of the first marker of each.
C7_DedupFirstSeenOrder ==
    Cited =>
        \A i, j \in DOMAIN citations :
            i < j =>
                /\ ~ ( /\ citations[i].document_id = citations[j].document_id
                       /\ citations[i].text = citations[j].text )
                /\ FirstMarkerOf(citations[i]) < FirstMarkerOf(citations[j])

\* two different markers resolve to the same evidence and collapse to one
C7_Witness ==
    /\ Cited
    /\ \E k, l \in DOMAIN MarkerNumbers :
           /\ MarkerNumbers[k] # MarkerNumbers[l]
           /\ Resolvable(MarkerNumbers[k])
           /\ Resolvable(MarkerNumbers[l])
           /\ SameEvidence(enhanced_results[MarkerNumbers[k]],
                           enhanced_results[MarkerNumbers[l]])
    /\ Len(citations) = 1

---------------------------------------------------------------------------
(* Context assembly: claim C10 *)

ContextBuilt == pc \in {"context", "generated", "cited"}

IsChunkBlock(part) == part.kind \in {"Text", "ImageText", "ImagePlaceholder", "Code"}

\* the result item a chunk block renders
RenderedItem(part) ==
    enhanced_results[CHOOSE i \in DOMAIN enhanced_results :
                         enhanced_results[i].chunk_id = part.chunk_id]

HasPage(item) == item.page_number # NoneInt

\* ascending (page number, chunk id), chunks without a page number last
PageOrderLeq(a, b) ==
    \/ HasPage(a) /\ ~HasPage(b)
    \/ /\ HasPage(a) = HasPage(b)
       /\ \/ HasPage(a) /\ a.page_number < b.page_number
          \/ /\ HasPage(a) => a.page_number = b.page_number
             /\ StrLeq(a.chunk_id, b.chunk_id)

\* C10: the chunks of one document are rendered in ascending order of
\* (page number, chunk id), every chunk without a page number after every
\* chunk of the document that has one.
C10_RenderedInPageOrder ==
    ContextBuilt =>
        \A i, j \in DOMAIN context_parts :
            ( /\ i < j
              /\ IsChunkBlock(context_parts[i])
              /\ IsChunkBlock(context_parts[j])
              /\ RenderedItem(context_parts[i]).document_id
                     = RenderedItem(context_parts[j]).document_id )
            => PageOrderLeq(RenderedItem(context_parts[i]), RenderedItem(context_parts[j]))

---------------------------------------------------------------------------
(* Context assembly on its own: claim C11 *)

Assembled == pc = "assembled"

\* C11: for an empty result list build_context_for_llm returns the sentinel
\* "No relevant information found.", and for no result list and no query is
\* the returned string empty.
C11_EmptyResultsGiveSentinel ==
    Assembled =>
        /\ enhanced_results = <<>> =>
               /\ context_parts = <<[kind |-> "NoInformation"]>>
               /\ ContextMinLength(context_parts) = Len(NoInformationText)
        /\ ContextMinLength(context_parts) > 0

C11_Witness ==
    /\ Assembled
    /\ enhanced_results = <<>>
    /\ query = <<>>
    /\ Len(context_parts) = 1
    /\ context_parts[1].kind = "NoInformation"

---------------------------------------------------------------------------
(* Generation and index failure: claims C14 - C16 *)

\* the generation call has returned
Generated == pc \in {"generated", "cited"}

AllFailed == \A k \in DOMAIN generation.outcomes : generation.outcomes[k] = "failed"

IsErrorAnswer == \E e \in CallErrors : response = ErrorAnswer(e)

\* C14: no exception of the generation call leaves generate_response; when
\* every attempt has failed the answer is the error sentence, and the answer
\* comes with the citation list extract_citations makes of it.
C14_FailureGivesErrorAnswer ==
    /\ pc # "generation_raised"
    /\ (Generated /\ AllFailed) => IsErrorAnswer
    /\ (Cited /\ generation.path # NoneStr) =>
           citations = ExtractCitationsFrom(response, enhanced_results)

\* three failed attempts on the text path, answered with the error sentence
C14_Witness ==
    /\ Cited
    /\ generation.path = "text"
    /\ generation.outcomes = <<"failed", "failed", "failed">>
    /\ IsErrorAnswer
    /\ Len(citations) = 1

\* C15: on either path at most MaxRetries attempts are made, a failed
\* attempt is followed by another until MaxRetries are made, and the answer
\* of the first successful attempt is returned.
C15_TransientFailureRetried ==
    Generated =>
        /\ generation.attempts <= MaxRetries
        /\ Len(generation.outcomes) = generation.attempts
        /\ AllFailed => generation.attempts = MaxRetries
        /\ ~AllFailed =>
               /\ generation.outcomes[generation.attempts] = "ok"
               /\ \A k \in 1..(generation.attempts - 1) : generation.outcomes[k] = "failed"
               /\ response \in CallAnswers

\* C16: a search of the index that fails ends the request with no context,
\* the "no relevant information" outcome and an empty citation list.
C16_IndexFailureGivesNoContext ==
    [][SearchVectorsFails =>
          /\ pc' = "done"
          /\ enhanced_results' = <<>>
          /\ citations' = <<>>]_vars

---------------------------------------------------------------------------
(* Ingestion: claims C12, C13 and C17 - C20 *)

\* C12: an embedding failure on a chunk does not leave process_document,
\* and a task that ran to its end has every chunk of the document in the
\* index and the document's metadata written.
C12_EmbeddingFailureContained ==
    \A d \in UploadIds :
        /\ jobs[d].pc # "embedding_raised"
        /\ jobs[d].pc = "done" =>
               /\ Len(jobs[d].vectors)
                      = Len(jobs[d].text_chunks) + Len(jobs[d].images)
                            + Len(jobs[d].code_snippets)
               /\ \A k \in DOMAIN jobs[d].vectors :
                      jobs[d].vectors[k].metadata \in collection
               /\ d \in metadata_files

\* C13: the vectors of the combined index collection all have the
\* dimensionality of the query vector embed_text(query).
C13_UniformDimensionality ==
    \A e \in embeddings :
        /\ \A f \in embeddings : e.dim = f.dim
        /\ \A v \in EmbedText(query) : ~v.raised => e.dim = v.dim

\* C17: when the extraction of a document fails, the step that ran it
\* stores a document record with an error field and halts the task.
C17_ExtractionFailureRecorded ==
    [][\A d \in UploadIds :
          (jobs[d].pc = "extract" /\ jobs'[d].extract_failed) =>
              /\ jobs'[d].pc = "halted"
              /\ \E r \in documents' : r.document_id = d /\ r.error # NoneStr]_vars

\* process_document has returned or an exception has left it
Finished(job) == job.pc \in {"returned", "halted", "done", "embedding_raised"}

\* C18: the step that ends an invocation of process_document leaves a
\* document record of the id in the metadata database, with the chunk counts
\* or with an error field.
C18_InvocationStoresRecord ==
    [][\A d \in UploadIds :
          (~Finished(jobs[d]) /\ Finished(jobs'[d])) =>
              \E r \in documents' :
                  /\ r.document_id = d
                  /\ r.error # NoneStr \/ r.num_text_chunks # NoneInt]_vars

\* the document was ingested to the end and delete_document removed it
Deleted(d) ==
    /\ jobs[d].pc = "done"
    /\ ~ \E r \in documents : r.document_id = d

\* C19: once a document is deleted no chunk row and no index entry of it
\* remains, and a query made from then on returns none of its chunks.
C19_DeleteCascades ==
    /\ [](\A d \in UploadIds :
             Deleted(d) =>
                 /\ ~ \E r \in chunk_table : r.document_id = d
                 /\ ~ \E m \in collection : m.document_id = d)
    /\ [][\A d \in UploadIds :
             (Deleted(d) /\ pc = "start" /\ pc' = "searched") =>
                 \A i \in DOMAIN search_results' :
                     search_results'[i].metadata.document_id # d]_vars

IsPrefix(p, s) == Len(p) <= Len(s) /\ SubSeq(s, 1, Len(p)) = p

\* the chunk metadata process_document has produced for the document so far
Produced(d) == [k \in DOMAIN jobs[d].vectors |-> jobs[d].vectors[k].metadata]

\* C20: every chunk id starts with its document's id, the ids of one
\* document are pairwise distinct, no id of one document is an id of
\* another, and a stored row or index entry under a chunk id is the one
\* its own document produced.
C20_ChunkIdsDocumentScoped ==
    \A d \in UploadIds :
        /\ \A k \in DOMAIN Produced(d) :
               /\ Produced(d)[k].document_id = d
               /\ IsPrefix(d \o <<"_">> \o ModalityChars(Produced(d)[k].chunk_type) \o <<"_">>,
                           Produced(d)[k].chunk_id)
               /\ \A r \in chunk_table \cup collection :
                      r.chunk_id = Produced(d)[k].chunk_id => r = Produced(d)[k]
        /\ \A k, l \in DOMAIN Produced(d) :
               k # l => Produced(d)[k].chunk_id # Produced(d)[l].chunk_id
        /\ \A e \in UploadIds \ {d} :
               \A k \in DOMAIN Produced(d) : \A l \in DOMAIN Produced(e) :
                   Produced(d)[k].chunk_id # Produced(e)[l].chunk_id

\* two ingestions in their loops at the same time, each having stored a
\* chunk of the same modality and sequence index
C20_Witness ==
    \E d, e \in UploadIds :
        /\ d # e
        /\ jobs[d].pc = "embed"
        /\ jobs[e].pc = "embed"
        /\ Produced(d) # <<>>
        /\ Produced(e) # <<>>
        /\ Produced(d)[1].chunk_type = Produced(e)[1].chunk_type
        /\ Produced(d)[1] \in chunk_table
        /\ Produced(e)[1] \in chunk_table

---------------------------------------------------------------------------
(* Segmentation: claims C8 and C9 *)

Chunked == pc = "chunked"

\* C8: no chunk is longer than TEXT_CHUNK_SIZE, except a chunk that holds a
\* paragraph which alone exceeds TEXT_CHUNK_SIZE (such a chunk holds that one
\* paragraph, after the overlap words carried from the chunk before it).
C8_ChunkWithinMaxSize ==
    Chunked =>
        \A k \in DOMAIN chunks :
            \/ StrLen(chunks[k]) <= TEXT_CHUNK_SIZE
            \/ \E q \in DOMAIN Paragraphs(text) :
                   /\ Contains(chunks[k], Paragraphs(text)[q])
                   /\ StrLen(Paragraphs(text)[q]) > TEXT_CHUNK_SIZE

\* C9: every non-empty trimmed paragraph of the input stands whole in a
\* chunk, and the chunks that hold the paragraphs follow the input order.
C9_ParagraphsCoveredInOrder ==
    Chunked =>
        LET paragraphs == Paragraphs(text)
        IN  \E holder \in [DOMAIN paragraphs -> DOMAIN chunks] :
                /\ \A q \in DOMAIN paragraphs : Contains(chunks[holder[q]], paragraphs[q])
                /\ \A q, r \in DOMAIN paragraphs : q < r => holder[q] <= holder[r]

\* a text of three paragraphs that is cut into several chunks, one of them
\* holding two paragraphs
C9_Witness ==
    /\ Chunked
    /\ Len(Paragraphs(text)) = 3
    /\ Len(chunks) = 2
    /\ \E k \in DOMAIN chunks : \E q \in 1..2 :
           /\ Contains(chunks[k], Paragraphs(text)[q])
           /\ Contains(chunks[k], Paragraphs(text)[q + 1])

----------------------------------------------------------------------------
(* search_vectors with the request's filters *)

\* "if document_ids:" -- None and the empty list are both false
Truthy(ids) == ~ids.none /\ ids.list # <<>>

\* the where clause: {"document_id": {"$in": document_ids}} when document_ids
\* is truthy, {"chunk_type": {"$ne": "image"}} when include_images is false,
\* their "$and" when both, None when neither
QueryFilter(ids, images) ==
    [in_ids    |-> IF Truthy(ids) THEN IdList(ids.list) ELSE NoneList,
     ne_image  |-> ~images]

\* the chunks of the collection a where clause admits
Where(coll, filter) ==
    {m \in coll :
        /\ ~filter.in_ids.none => m.document_id \in Range(filter.in_ids.list)
        /\ filter.ne_image => m.chunk_type # "image"}

DocGhost == <<"g","h","o","s","t">>

AllowLists ==
    {NoneList, IdList(<<>>), IdList(<<DocGuide>>), IdList(<<DocScan>>),
     IdList(<<DocGuide, DocScan>>), IdList(<<DocGhost>>)}

InitFilter ==
    /\ pc = "start"
    /\ collection = Corpus
    /\ documents = DocumentRecords
    /\ query \in {QueryPython, QueryNoKeyword}
    /\ max_results \in 1..MaxResults
    /\ search_results = <<>>
    /\ enhanced_results = <<>>
    /\ context_parts = <<>>
    /\ response = <<>>
    /\ citations = <<>>
    /\ text = <<>>
    /\ chunks = <<>>
    /\ NoGeneration
    /\ NoIngestion
    /\ document_ids \in AllowLists
    /\ include_images \in BOOLEAN

SearchVectorsFiltered ==
    /\ pc = "start"
    /\ LET admitted == Where(collection, QueryFilter(document_ids, include_images))
       IN  \E m \in DistinctSeqs(admitted, Min(max_results, Cardinality(admitted))) :
               search_results' =
                   ProcessedResults([i \in DOMAIN m |->
                       [metadata |-> m[i], distance |-> RankDistanceStep * (i - 1)]])
    /\ pc' = "searched"
    /\ UNCHANGED <<collection, documents, query, max_results, enhanced_results,
                   context_parts, response, citations, text, chunks>>
    /\ UNCHANGED <<genVars, ingestVars, filterVars>>

NextFilter ==
    \/ SearchVectorsFiltered
    \/ EnhanceResults
    \/ RankResults

SpecFilter == InitFilter /\ [][NextFilter]_vars

----------------------------------------------------------------------------
(* hybrid_search over contents that repeat a keyword *)

ChunkF == TextChunkMetadata(DocGuide, 2, StrPython \o <<" ">> \o Lower(StrPython))

ChunkG == CodeChunkMetadata(DocGuide, 1, StrJava \o StrJava \o StrJava, "java")

CorpusRepeats == {ChunkA, ChunkC, ChunkF, ChunkG}

InitBoost ==
    /\ pc = "start"
    /\ collection = CorpusRepeats
    /\ documents = DocumentRecords
    /\ query \in {QueryPython, QueryJavaPython, QueryJavaFive}
    /\ max_results \in 1..MaxResults
    /\ search_results = <<>>
    /\ enhanced_results = <<>>
    /\ context_parts = <<>>
    /\ response = <<>>
    /\ citations = <<>>
    /\ text = <<>>
    /\ chunks = <<>>
    /\ NoGeneration
    /\ NoIngestion
    /\ NoFilter

SpecBoost == InitBoost /\ [][Next]_vars

----------------------------------------------------------------------------
(* C21: filters of a query *)

Retrieved == pc = "retrieved"

\* C21: with a document_id allow-list every returned item's document_id is in
\* the list, and with include_images false no returned item is an image chunk;
\* both hold together when both filters are given
C21_FiltersRespected ==
    Retrieved =>
        \A i \in DOMAIN enhanced_results :
            /\ ~document_ids.none =>
                   enhanced_results[i].document_id \in Range(document_ids.list)
            /\ ~include_images => enhanced_results[i].chunk_type # "image"

\* the same for allow-lists that name at least one document
C21_NonEmptyAllowListRespected ==
    Retrieved =>
        \A i \in DOMAIN enhanced_results :
            /\ (~document_ids.none /\ document_ids.list # <<>>) =>
                   enhanced_results[i].document_id \in Range(document_ids.list)
            /\ ~include_images => enhanced_results[i].chunk_type # "image"

----------------------------------------------------------------------------
(* Keyword boost: claims C22 - C24 *)

\* C22: a result whose content contains at least one keyword of the query
\* leaves hybrid_search with a confidence strictly greater than its raw
\* confidence, and such a result ranked first on input is first on output.
C22_MatchRaisesAndKeepsFirst ==
    HybridCalled =>
        \A i \in DOMAIN search_results :
            HasOverlap(search_results[i].metadata.content) =>
                /\ enhanced_results[OutputPos(search_results[i].id)].confidence
                       > search_results[i].confidence
                /\ i = 1 => OutputPos(search_results[i].id) = 1

\* the query holds no run of four word characters, so the expression
\* \b\w{4,}\b finds nothing in it
NoLongWord(q) ==
    ~\E i \in 1..(Len(q) - 3) : \A k \in 0..3 : IsWordChar(q[i + k])

\* C23: for a query without a keyword of length >= 4, the empty query
\* included, the retrieved results are the vector-search results unmodified:
\* the same items in the same order with the same confidences.
C23_NoKeywordLeavesResults ==
    (Retrieved /\ NoLongWord(query)) =>
        enhanced_results =
            [i \in DOMAIN search_results |-> EnhancedResult(documents, search_results[i])]

\* a non-empty query without keyword, and a result holding one of its words
C23_Witness ==
    /\ Retrieved
    /\ NoLongWord(query)
    /\ query # <<>>
    /\ \E i \in DOMAIN enhanced_results :
           \E w \in Range(KeywordsAnyLength(query)) :
               Contains(Lower(enhanced_results[i].content), w)

\* the confidence hybrid_search gives a result of confidence old for a match
\* count of count
BoostFor(old, count) ==
    IF count > 0 THEN Min(990, old + Min(200, 50 * count)) ELSE old

\* C24: the match count of a result is the number of case-folded substring
\* occurrences of the query's keywords in its content, a keyword occurring k
\* times contributing k; a positive count gives the confidence
\* min(0.99, old + min(0.2, 0.05 * count)), a zero count leaves it unchanged.
C24_BoostCountsOccurrences ==
    HybridCalled =>
        \A i \in DOMAIN search_results :
            enhanced_results[OutputPos(search_results[i].id)].confidence =
                BoostFor(search_results[i].confidence,
                         SumSeq([k \in DOMAIN Keywords(query) |->
                             Occurrences(Lower(search_results[i].metadata.content),
                                         Keywords(query)[k])]))

\* C24, amended: the match count is the number of keywords of the query, each
\* counted as often as the query repeats it, that occur at least once in the
\* case-folded content.
C24_BoostCountsKeywordsPresent ==
    HybridCalled =>
        \A i \in DOMAIN search_results :
            enhanced_results[OutputPos(search_results[i].id)].confidence =
                BoostFor(search_results[i].confidence,
                         Cardinality({k \in DOMAIN Keywords(query) :
                             Occurrences(Lower(search_results[i].metadata.content),
                                         Keywords(query)[k]) > 0}))

\* a result whose content repeats a keyword was boosted below the cap
C24_Witness ==
    /\ HybridCalled
    /\ \E i \in DOMAIN enhanced_results :
           /\ \E k \in DOMAIN Keywords(query) :
                  Occurrences(Lower(enhanced_results[i].content), Keywords(query)[k]) > 1
           /\ enhanced_results[i].confidence < 990
           /\ enhanced_results[i].confidence
                  > search_results[InputPos(enhanced_results[i].chunk_id)].confidence

----------------------------------------------------------------------------
(* Segmentation: claims C25 and C26 *)

\* the last min(word count, overlap_size / 10) words of a chunk, joined
TrailingWords(chunk) ==
    LET words == SplitWords(chunk)
        n     == Min(Len(words), TEXT_CHUNK_OVERLAP \div 10)
    IN  JoinWords(SubSeq(words, Len(words) - n + 1, Len(words)))

Oversized == {q \in DOMAIN Paragraphs(text) : StrLen(Paragraphs(text)[q]) > TEXT_CHUNK_SIZE}

\* C26: a single paragraph longer than the maximum chunk size is never
\* split: it stands whole in exactly one chunk, and that chunk is its own,
\* holding no other paragraph of the input.
C26_OversizedParagraphAlone ==
    Chunked =>
        \A q \in Oversized :
            /\ Cardinality({k \in DOMAIN chunks : Contains(chunks[k], Paragraphs(text)[q])}) = 1
            /\ \A k \in DOMAIN chunks :
                   Contains(chunks[k], Paragraphs(text)[q]) =>
                       \A r \in DOMAIN Paragraphs(text) \ {q} :
                           ~Contains(chunks[k], Paragraphs(text)[r])

\* C26, amended: such a paragraph is never split: a chunk consists of it
\* alone when it is the first paragraph, and otherwise of the overlap words
\* of the chunk before, a blank line and the paragraph.
C26_OversizedParagraphAfterSeed ==
    Chunked =>
        \A q \in Oversized :
            \E k \in DOMAIN chunks :
                chunks[k] =
                    IF k = 1 THEN Paragraphs(text)[q]
                    ELSE TrailingWords(chunks[k - 1]) \o ParagraphBreak \o Paragraphs(text)[q]

\* the chunk of an oversized paragraph also holds the whole paragraph before
\* it, carried over as overlap
C26_Witness ==
    /\ Chunked
    /\ \E q \in Oversized : \E k \in DOMAIN chunks :
           /\ q > 1
           /\ k > 1
           /\ chunks[k] = TrailingWords(chunks[k - 1]) \o ParagraphBreak \o Paragraphs(text)[q]
           /\ Contains(chunks[k], Paragraphs(text)[q - 1])

----------------------------------------------------------------------------
(* Context and citations: claims C27 and C30 *)

\* the chunk blocks of the context, in the order build_context_for_llm
\* renders them
RenderedBlocks == SelectSeq(context_parts, IsChunkBlock)

\* C27: the chunk extract_citations resolves [DOC_i] to, the i-th item of the
\* result list, is the chunk rendered as the i-th chunk block of the context
\* built from the same list.
C27_MarkerMatchesRenderedBlock ==
    Cited =>
        \A k \in DOMAIN MarkerNumbers :
            Resolvable(MarkerNumbers[k]) =>
                LET item == ContextItem(enhanced_results, MarkerIndex(FindMarkers(response, 1)[k]))
                IN  /\ MarkerNumbers[k] <= Len(RenderedBlocks)
                    /\ RenderedBlocks[MarkerNumbers[k]].chunk_id = item.chunk_id

\* the ranked list retrieve_context returned
RetrievedList ==
    LET enhanced == [i \in DOMAIN search_results |->
                        EnhancedResult(documents, search_results[i])]
    IN  IF query # <<>> /\ enhanced # <<>> THEN HybridSearch(query, enhanced) ELSE enhanced

----------------------------------------------------------------------------
(* Ingestion and the two stores: claims C28 and C29 *)

\* C28: under any interleaving of a query with ingestion, every chunk
\* retrieve_context returns belongs to a document whose record is in the
\* metadata store, so its document_name is the file name and never
\* "Unknown Document".
C28_RetrievedChunkHasRecord ==
    pc \in {"enhanced", "retrieved"} =>
        \A i \in DOMAIN enhanced_results :
            enhanced_results[i].document_name # "Unknown Document"

\* every process_document task has ended, with its record stored or with the
\* read error recorded, or was never started
Settled == \A d \in UploadIds : jobs[d].pc \in {"none", "done", "halted"}

\* C29: after any sequence of ingestions and deletions, the set of ids
\* get_document_ids returns is the set of document ids with a record in the
\* metadata database.
C29_ListingMatchesRecords ==
    Settled => metadata_files = {r.document_id : r \in documents}

=============================================================================
